---- MODULE Spec2Model ----
(***************************************************************************)
(* Model of the arbitrage scanner of src/bot.py: ArbDetector.scan and the   *)
(* coroutines it drives (detect_arb, get_raydium_pool_price,                *)
(* get_orca_pool_price, get_jupiter_quote, get_coingecko_price), the        *)
(* RATE_LIMIT semaphore and the invalid_tokens negative cache.              *)
(*                                                                         *)
(* asyncio runs one coroutine at a time and switches only at an await that  *)
(* suspends, so every action below is the code between two suspensions.     *)
(***************************************************************************)
EXTENDS Integers, Sequences, FiniteSets, TLC

\* ------------------------------------------------------------------ bounds
\* Largest token universe (len(self.tokens)).
MaxTokens == 2
\* Largest value of MAX_CONCURRENT_REQUESTS explored.
MaxLimit == 2
\* The wall clock (time.time()) stops advancing here.
MaxClock == 600
\* The circuit breaker of the specification: failures in a row that open it,
\* and seconds it stays open.
BreakerThreshold == 2
BreakerCooldown == 60

\* --------------------------------------------------------- program constants
MIN_PROFIT_PCT == 6
INVALID_TOKEN_TTL == 600
\* asyncio.wait_for(..., timeout=25) in scan.
EVAL_TIMEOUT == 25
\* session.get(..., timeout=20).
REQUEST_TIMEOUT == 20
\* retries=5 of get_jupiter_quote, retries=3 of the other fetchers.
JUPITER_RETRIES == 5
COINGECKO_RETRIES == 3
RPC_RETRIES == 3
\* amount=100000000 of detect_arb.
AMOUNT == 100000000

USDC_ADDRESS == "USDC"
\* Mint addresses a tokens.json entry may carry.
Addresses == {USDC_ADDRESS, "WIF"}
\* Keys of the COINGECKO_IDS map.
COINGECKO_IDS == {"WIF"}

\* Python's None, and None where the value is a fraction.
None == 0 - 1
NoRat == <<0, 0>>

\* Steps by which the wall clock is observed to advance.
TickSteps == {300}
\* Pool prices the RPC fetches can yield (reserve ratios).
Prices == {50, 53}
\* outAmount values Jupiter quotes for an input amount: for the notional
\* amount, for nothing, and for any other amount (the second leg's).
OutAmounts(amount) ==
    IF amount = AMOUNT THEN {0, 105000000}
    ELSE IF amount = 0 THEN {0}
    ELSE {0, 105000000, 108000000}
\* A body that parses to a non-empty dict without a usable 'outAmount'.
NoAmount == 0 - 2
\* Prices CoinGecko can report.
CgPrices == {50}

VARIABLES
    MAX_CONCURRENT_REQUESTS, \* the module constant of line 33, fixed at start
    tokens,                  \* self.tokens: sequence of mint addresses
    direct,                  \* arguments of the quote calls made outside detect_arb
    invalid_tokens,          \* self.invalid_tokens: pair -> timestamp
    RATE_LIMIT,              \* free permits of the semaphore
    now,                     \* time.time()
    scan,                    \* the scan coroutine: pc, batch index, counter
    task,                    \* the detect_arb evaluations of the pass
    quote_failures           \* history: the quote calls failed in a row

vars ==
    <<MAX_CONCURRENT_REQUESTS, tokens, direct, invalid_tokens, RATE_LIMIT, now, scan, task,
      quote_failures>>

\* ------------------------------------------------------- exact arithmetic
\* Python computes the percentages in floating point; the model computes the
\* same expressions over exact fractions <<numerator, denominator>> in lowest
\* terms, denominator > 0.
Abs(x) == IF x < 0 THEN 0 - x ELSE x

RECURSIVE GCD(_, _)
GCD(a, b) == IF b = 0 THEN a ELSE GCD(b, a % b)

Rat(n, d) == LET g == GCD(Abs(n), d) IN <<n \div g, d \div g>>

RatInt(i) == <<i, 1>>

RatSub(a, b) == Rat(a[1] * b[2] - b[1] * a[2], a[2] * b[2])

\* Cancels across the product first, so that no intermediate leaves 32 bits.
RatMul(a, b) ==
    LET g1 == GCD(Abs(a[1]), b[2])
        g2 == GCD(Abs(b[1]), a[2])
    IN  Rat((a[1] \div g1) * (b[1] \div g2), (a[2] \div g2) * (b[2] \div g1))

\* b > 0
RatDiv(a, b) == RatMul(a, <<b[2], b[1]>>)

RatGE(a, b) == a[1] * b[2] >= b[1] * a[2]

RatGT(a, b) == a[1] * b[2] > b[1] * a[2]

RatAbs(a) == <<Abs(a[1]), a[2]>>

Min(a, b) == IF a < b THEN a ELSE b

Max(a, b) == IF a > b THEN a ELSE b

\* 4 * (2 ** attempt)
WaitTime(attempt) == 4 * (2 ^ attempt)

\* ------------------------------------------------------------------ state
Pairs == Addresses \X Addresses

\* No opportunity dict.
NoOpp ==
    [profit_pct |-> NoRat, jup_profit_pct |-> NoRat, buy_price |-> None,
     sell_price |-> None, quote1 |-> None, quote2 |-> None,
     cg_price |-> None, price_diff_pct |-> NoRat]

\* A detect_arb coroutine wrapped in wait_for, created and not yet awaited.
\* Its fields are the locals of the coroutine (a local is None again once
\* the code no longer reads it), elapsed: the least number of seconds the
\* evaluation has been running, log: the last message of the call that ended
\* it, result: what gather gets, notified: notify_telegram was called.
NewTask ==
    [pc |-> "new", elapsed |-> 0, attempt |-> 0, leg |-> 0,
     raydium_price |-> None, orca_price |-> None,
     buy_price |-> None, sell_price |-> None, profit_pct |-> NoRat,
     quote1 |-> None, quote2 |-> None, jup_profit_pct |-> NoRat,
     cg_price |-> None, price_diff_pct |-> NoRat,
     log |-> "", result |-> "pending", notified |-> FALSE, opp |-> NoOpp]

\* History of the quote calls, kept for the circuit-breaker property only:
\* the program has no such state and no action reads it. count: the calls
\* that sent a request and returned no quote since the last call that
\* returned one, up to BreakerThreshold; at: the time of the last of them
\* once count has reached BreakerThreshold.
NoFailures == [count |-> 0, at |-> None]

\* No arguments: the evaluation is one of scan's, and detect_arb makes its
\* quote calls.
NoCall == [input_mint |-> "", output_mint |-> "", amount |-> None]

N == Len(tokens)

Tasks == 1..N

\* Mutant of Batch: the slice has lost its upper bound.
BatchUnsliced(i) == {t \in Tasks : i <= t}

\* tasks[i:i + MAX_CONCURRENT_REQUESTS], as 1-based task numbers.
Batch(i) == {t \in Tasks : i <= t /\ t < i + MAX_CONCURRENT_REQUESTS}

Init ==
    /\ MAX_CONCURRENT_REQUESTS \in 1..MaxLimit
    /\ tokens \in UNION {[1..n -> Addresses] : n \in 0..MaxTokens}
    /\ direct = [t \in Tasks |-> NoCall]
    /\ invalid_tokens = [p \in Pairs |-> None]
    /\ RATE_LIMIT = MAX_CONCURRENT_REQUESTS
    /\ now = 0
    /\ quote_failures = NoFailures
    /\ scan = [pc |-> "idle", i |-> 1, valid_results |-> 0]
    /\ task = [t \in Tasks |-> NewTask]

\* ------------------------------------------------------------------- scan
\* run_bot calls scan: the coroutines are created, and the first batch is
\* handed to gather.
StartScan ==
    /\ scan.pc \in {"idle", "sleeping"}
    /\ scan' = [pc |-> IF N = 0 THEN "sleeping" ELSE "gather",
                i |-> 1, valid_results |-> 0]
    /\ task' = [t \in Tasks |->
                   IF t \in Batch(1) THEN [NewTask EXCEPT !.pc = "start"]
                   ELSE NewTask]
    /\ UNCHANGED <<MAX_CONCURRENT_REQUESTS, tokens, direct, invalid_tokens, RATE_LIMIT, now, quote_failures>>

\* Mutant of GatherDone: every result that is not an exception is counted,
\* None too.
GatherDoneCountsNone ==
    /\ scan.pc = "gather"
    /\ \A t \in Batch(scan.i) : task[t].pc = "done"
    /\ scan' = [scan EXCEPT
                  !.pc = "pacing",
                  !.valid_results =
                      @ + Cardinality({t \in Batch(scan.i) : task[t].result # "timeout"})]
    /\ UNCHANGED <<MAX_CONCURRENT_REQUESTS, tokens, direct, invalid_tokens, RATE_LIMIT, now, task,
                 quote_failures>>

\* Mutant of GatherDone: gather lets a TimeoutError out and nothing catches
\* it, so the pass is over at the first abandoned evaluation.
GatherRaises ==
    /\ scan.pc = "gather"
    /\ \A t \in Batch(scan.i) : task[t].pc = "done"
    /\ scan' = IF \E t \in Batch(scan.i) : task[t].result = "timeout"
               THEN [scan EXCEPT !.pc = "sleeping"]
               ELSE [scan EXCEPT
                       !.pc = "pacing",
                       !.valid_results =
                           @ + Cardinality({t \in Batch(scan.i) : task[t].result = "opp"})]
    /\ UNCHANGED <<MAX_CONCURRENT_REQUESTS, tokens, direct, invalid_tokens, RATE_LIMIT, now,
                 task, quote_failures>>

\* gather returns once every awaitable of the batch has a result; the
\* results that are dicts are counted; then the pacing sleep starts.
GatherDone ==
    /\ scan.pc = "gather"
    /\ \A t \in Batch(scan.i) : task[t].pc = "done"
    /\ scan' = [scan EXCEPT
                  !.pc = "pacing",
                  !.valid_results =
                      @ + Cardinality({t \in Batch(scan.i) : task[t].result = "opp"})]
    /\ UNCHANGED <<MAX_CONCURRENT_REQUESTS, tokens, direct, invalid_tokens, RATE_LIMIT, now, task,
                 quote_failures>>

\* Mutant of PacingDone: the batch is not awaited; the next one is started
\* while gather is still waiting.
PacingDoneUnawaited ==
    /\ scan.pc \in {"gather", "pacing"}
    /\ LET j == scan.i + MAX_CONCURRENT_REQUESTS IN
       IF j <= N
       THEN /\ scan' = [scan EXCEPT !.pc = "gather", !.i = j]
            /\ task' = [t \in Tasks |->
                           IF t \in Batch(j) THEN [task[t] EXCEPT !.pc = "start"]
                           ELSE task[t]]
       ELSE /\ scan' = [scan EXCEPT !.pc = "sleeping"]
            /\ task' = task
    /\ UNCHANGED <<MAX_CONCURRENT_REQUESTS, tokens, direct, invalid_tokens, RATE_LIMIT, now,
                 quote_failures>>

\* asyncio.sleep(BATCH_DELAY) is over: the next batch is gathered, or the
\* pass ends and run_bot sleeps POLL_INTERVAL.
PacingDone ==
    /\ scan.pc = "pacing"
    /\ LET j == scan.i + MAX_CONCURRENT_REQUESTS IN
       IF j <= N
       THEN /\ scan' = [scan EXCEPT !.pc = "gather", !.i = j]
            /\ task' = [t \in Tasks |->
                           IF t \in Batch(j) THEN [task[t] EXCEPT !.pc = "start"]
                           ELSE task[t]]
       ELSE /\ scan' = [scan EXCEPT !.pc = "sleeping"]
            /\ task' = task
    /\ UNCHANGED <<MAX_CONCURRENT_REQUESTS, tokens, direct, invalid_tokens, RATE_LIMIT, now, quote_failures>>

\* The wall clock advances.
Tick ==
    /\ \E d \in TickSteps :
          /\ now + d <= MaxClock
          /\ now' = now + d
    /\ UNCHANGED <<MAX_CONCURRENT_REQUESTS, tokens, direct, invalid_tokens, RATE_LIMIT, scan, task,
                 quote_failures>>

\* ------------------------------------------------------------- detect_arb
\* What no step of an evaluation changes.
Frame == UNCHANGED <<MAX_CONCURRENT_REQUESTS, tokens, direct, now, scan>>

\* detect_arb has returned None; msg is the last message logged.
ReturnNone(tk, msg) ==
    [NewTask EXCEPT !.pc = "done", !.result = "none", !.log = msg]

\* Answers of rpc_client.get_account_info: reserves that give a price, no
\* account data or a zero reserve, or an exception.
RpcResponses ==
    {[kind |-> "price", price |-> p] : p \in Prices}
        \cup {[kind |-> "nodata", price |-> None], [kind |-> "error", price |-> None]}

\* The evaluation starts running: USDC is skipped, any other token has its
\* Raydium pool account fetched.
DetectArbStart(t) ==
    /\ task[t].pc = "start"
    /\ task' = [task EXCEPT ![t] =
                   IF tokens[t] = USDC_ADDRESS
                   THEN ReturnNone(@, "skip_usdc")
                   ELSE [@ EXCEPT !.pc = "raydium_rpc", !.attempt = 0]]
    /\ UNCHANGED <<invalid_tokens, RATE_LIMIT, quote_failures>>
    /\ Frame

\* get_raydium_pool_price has returned price (or None): the Orca fetch starts.
RaydiumReturn(tk, price) ==
    [tk EXCEPT !.raydium_price = price, !.pc = "orca_rpc", !.attempt = 0]

\* The first iteration of the fetch loop: a price or None is returned; an
\* exception sleeps when attempts remain and returns None all the same.
RaydiumResponse(t, r) ==
    /\ task[t].pc = "raydium_rpc"
    /\ task' = [task EXCEPT ![t] =
                   IF r.kind = "error" /\ @.attempt < RPC_RETRIES - 1
                   THEN [@ EXCEPT !.pc = "raydium_sleep"]
                   ELSE RaydiumReturn(@, r.price)]
    /\ UNCHANGED <<invalid_tokens, RATE_LIMIT, quote_failures>>
    /\ Frame

\* A wait of w seconds ends before wait_for's timer only when it fits; a
\* call that is not under wait_for (elapsed is None) has no timer.
SleepFits(tk, w) == tk.elapsed # None => tk.elapsed + w < EVAL_TIMEOUT

\* The task after a wait of w seconds.
Slept(tk, w) == IF tk.elapsed = None THEN tk ELSE [tk EXCEPT !.elapsed = @ + w]

RaydiumSleepDone(t) ==
    /\ task[t].pc = "raydium_sleep"
    /\ SleepFits(task[t], WaitTime(task[t].attempt))
    /\ task' = [task EXCEPT ![t] = RaydiumReturn(Slept(@, WaitTime(@.attempt)), None)]
    /\ UNCHANGED <<invalid_tokens, RATE_LIMIT, quote_failures>>
    /\ Frame

\* profit_pct of lines 286-288.
PoolProfitPct(amount, buy_price, sell_price) ==
    LET token_out == RatDiv(RatInt(amount), RatInt(buy_price))
        final_usdc == RatMul(token_out, RatInt(sell_price))
    IN  RatMul(RatDiv(RatSub(final_usdc, RatInt(amount)), RatInt(amount)), RatInt(100))

\* profit_pct >= MIN_PROFIT_PCT, line 291.
Profitable(profit_pct) == RatGE(profit_pct, RatInt(MIN_PROFIT_PCT))

\* Lines 275-293: with both pool prices known, the evaluation ends, or goes on
\* to the first Jupiter quote.
AfterPrices(tk) ==
    IF tk.raydium_price = None \/ tk.orca_price = None
    THEN ReturnNone(tk, "no_price_data")
    ELSE LET buy_price == Min(tk.raydium_price, tk.orca_price)
             sell_price == Max(tk.raydium_price, tk.orca_price)
             profit_pct == PoolProfitPct(AMOUNT, buy_price, sell_price)
         IN  IF Profitable(profit_pct)
             THEN [tk EXCEPT !.pc = "jq_call", !.leg = 1,
                             !.buy_price = buy_price, !.sell_price = sell_price,
                             !.profit_pct = profit_pct,
                             !.raydium_price = None, !.orca_price = None]
             ELSE ReturnNone(tk, "below_threshold")

\* get_orca_pool_price has returned.
OrcaReturn(tk, price) == AfterPrices([tk EXCEPT !.orca_price = price])

OrcaResponse(t, r) ==
    /\ task[t].pc = "orca_rpc"
    /\ task' = [task EXCEPT ![t] =
                   IF r.kind = "error" /\ @.attempt < RPC_RETRIES - 1
                   THEN [@ EXCEPT !.pc = "orca_sleep"]
                   ELSE OrcaReturn(@, r.price)]
    /\ UNCHANGED <<invalid_tokens, RATE_LIMIT, quote_failures>>
    /\ Frame

OrcaSleepDone(t) ==
    /\ task[t].pc = "orca_sleep"
    /\ SleepFits(task[t], WaitTime(task[t].attempt))
    /\ task' = [task EXCEPT ![t] = OrcaReturn(Slept(@, WaitTime(@.attempt)), None)]
    /\ UNCHANGED <<invalid_tokens, RATE_LIMIT, quote_failures>>
    /\ Frame

\* ------------------------------------------------------ get_jupiter_quote
\* The arguments of the call detect_arb makes for leg 1 (USDC -> token,
\* amount) and for leg 2 (token -> USDC, the first quote's outAmount), or
\* those another caller passes.
InputMint(t) ==
    IF direct[t] # NoCall THEN direct[t].input_mint
    ELSE IF task[t].leg = 1 THEN USDC_ADDRESS ELSE tokens[t]

OutputMint(t) ==
    IF direct[t] # NoCall THEN direct[t].output_mint
    ELSE IF task[t].leg = 1 THEN tokens[t] ELSE USDC_ADDRESS

\* Mutant of PairOf: the key is the two mints in a fixed order.
PairOfUnordered(t) ==
    IF InputMint(t) = USDC_ADDRESS
    THEN <<InputMint(t), OutputMint(t)>>
    ELSE <<OutputMint(t), InputMint(t)>>

PairOf(t) == <<InputMint(t), OutputMint(t)>>

\* Mutant of QuoteAmount: both legs are quoted for the notional amount.
QuoteAmountNotional(tk) == AMOUNT

\* The amount argument of the call: amount for leg 1 (line 293),
\* token_out_jup = int(quote1['outAmount']) for leg 2 (lines 297-298).
QuoteAmount(tk) == IF tk.leg = 1 THEN AMOUNT ELSE tk.quote1

\* Mutant of Suppressed: the age comparison is turned round.
SuppressedWhenOld(pair) ==
    invalid_tokens[pair] # None /\ now - invalid_tokens[pair] > INVALID_TOKEN_TTL

\* Mutant of Suppressed: an entry still suppresses at an age of exactly TTL.
SuppressedInclusive(pair) ==
    invalid_tokens[pair] # None /\ now - invalid_tokens[pair] <= INVALID_TOKEN_TTL

\* pair in self.invalid_tokens and time.time() - self.invalid_tokens[pair] < INVALID_TOKEN_TTL
Suppressed(pair) ==
    invalid_tokens[pair] # None /\ now - invalid_tokens[pair] < INVALID_TOKEN_TTL

\* Semaphore.release and Semaphore.acquire (with a permit free).
Release(permits) == permits + 1

Acquire(permits) == permits - 1

\* The places of an evaluation inside a get_jupiter_quote call.
JqPcs == {"jq_call", "jq_wait", "jq_inflight", "jq_backoff", "jq_error_sleep"}

\* The history after a step that takes an evaluation from a to b.  A call
\* that is still running, a call refused before its first request and a
\* cancelled call leave it alone.
QuoteFailures(a, b) ==
    IF (b.pc \in JqPcs /\ b.leg = a.leg) \/ a.pc = "jq_call"
    THEN quote_failures
    ELSE IF (IF a.leg = 1 THEN b.quote1 ELSE b.quote2) # None
         THEN NoFailures
         ELSE LET c == Min(quote_failures.count + 1, BreakerThreshold) IN
              [count |-> c, at |-> IF c = BreakerThreshold THEN now ELSE None]

\* Mutant of JupProfitPct: the ratio is not scaled to a percentage.
JupProfitRatio(jup_final_usdc, amount) ==
    RatDiv(RatInt(jup_final_usdc - amount), RatInt(amount))

\* jup_profit_pct of line 303.
JupProfitPct(jup_final_usdc, amount) ==
    RatMul(RatDiv(RatInt(jup_final_usdc - amount), RatInt(amount)), RatInt(100))

\* price_diff_pct of lines 306-308.
PriceDiffPct(cg_price, buy_price) ==
    LET d == IF cg_price # None
             THEN RatMul(RatDiv(RatAbs(RatInt(cg_price - buy_price)), RatInt(buy_price)),
                         RatInt(100))
             ELSE RatInt(0)
    IN  IF RatGT(d, RatInt(100)) THEN RatInt(0) ELSE d

\* Mutant of JqReturn: a missing quote is not checked for; the evaluation
\* goes on to the next call.
JqReturnUnchecked(tk, q, msg) ==
    IF tk.leg = 1
    THEN [tk EXCEPT !.quote1 = q, !.pc = "jq_call", !.leg = 2, !.attempt = 0]
    ELSE [tk EXCEPT !.quote2 = q, !.pc = "cg_call", !.attempt = 0]

\* get_jupiter_quote has returned q (an outAmount, NoAmount or None) to
\* detect_arb, lines 293-305: None ends the evaluation; int(quote['outAmount'])
\* raises without a usable outAmount and the handler of lines 325-327 returns
\* None; any outAmount, zero too, feeds the next call.
JqReturn(tk, q, msg) ==
    IF q = None THEN ReturnNone(tk, msg)
    ELSE IF q = NoAmount THEN ReturnNone(tk, "error_detecting_arb")
    ELSE IF tk.leg = 1
         THEN [tk EXCEPT !.quote1 = q, !.pc = "jq_call", !.leg = 2, !.attempt = 0]
         ELSE [tk EXCEPT !.quote2 = q, !.jup_profit_pct = JupProfitPct(q, AMOUNT),
                         !.pc = "cg_call", !.attempt = 0]

\* Mutant of JqRefusal: the self-pair test is missing.
JqRefusalCacheOnly(t) ==
    IF Suppressed(PairOf(t)) THEN "jq_recently_invalid" ELSE ""

\* Lines 162-168: the call is refused before the loop.
JqRefusal(t) ==
    IF InputMint(t) = OutputMint(t) THEN "jq_self_pair"
    ELSE IF Suppressed(PairOf(t)) THEN "jq_recently_invalid"
    ELSE ""

\* Lines 162-178: the self-pair and negative-cache checks, then the first
\* iteration of the loop takes a permit and sends the request in the same
\* step (with no permit free the call waits in acquire).
JqCall(t) ==
    /\ task[t].pc = "jq_call"
    /\ JqRefusal(t) = "" => RATE_LIMIT > 0
    /\ IF JqRefusal(t) # ""
       THEN /\ task' = [task EXCEPT ![t] = JqReturn(@, None, JqRefusal(t))]
            /\ RATE_LIMIT' = RATE_LIMIT
       ELSE /\ task' = [task EXCEPT ![t] = [@ EXCEPT !.pc = "jq_inflight", !.attempt = 0]]
            /\ RATE_LIMIT' = Acquire(RATE_LIMIT)
    /\ UNCHANGED invalid_tokens
    /\ quote_failures' = QuoteFailures(task[t], task'[t])
    /\ Frame

\* What the upstream can answer to session.get(JUPITER_URL) for an amount:
\* 200 with a quote (or a dict that is none), 200 with an empty or an
\* unparseable body, 429, 400,
\* another status, asyncio.TimeoutError, or another exception.
JupiterResponses(amount) ==
    {[kind |-> "ok", out |-> v] : v \in OutAmounts(amount) \cup {NoAmount}}
        \cup {[kind |-> k, out |-> None] :
                k \in {"empty", "badjson", "429", "400", "503", "timeout", "error"}}

\* Lines 179-216, the body of one attempt once the answer is in, branch by
\* branch: the task afterwards, whether the permit is released (the attempt
\* leaves `async with RATE_LIMIT`), whether the pair is marked invalid.
\* Lines 179-187: status 200 with a body that parses.
OnQuote(tk, out) ==
    [task |-> JqReturn(tk, out, "jq_quote"), release |-> TRUE, mark |-> FALSE]

\* Lines 181-183 and 188-190: status 200 with an empty or unparseable body.
OnMalformed(tk, msg) ==
    [task |-> JqReturn(tk, None, msg), release |-> TRUE, mark |-> FALSE]

\* Mutant of OnRateLimit: the sleep is taken after `async with RATE_LIMIT`
\* has been left.
OnRateLimitReleased(tk) ==
    [task |-> [tk EXCEPT !.pc = "jq_backoff"], release |-> TRUE, mark |-> FALSE]

\* Lines 191-194: status 429, sleep and fall through to the next iteration.
OnRateLimit(tk) ==
    [task |-> [tk EXCEPT !.pc = "jq_backoff"], release |-> FALSE, mark |-> FALSE]

\* Mutant of OnBadRequest: a 400 is backed off and retried like a 429.
OnBadRequestRetried(tk) ==
    [task |-> [tk EXCEPT !.pc = "jq_backoff"], release |-> FALSE, mark |-> TRUE]

\* Lines 195-200: status 400, the pair is marked and None returned.
OnBadRequest(tk) ==
    [task |-> JqReturn(tk, None, "jq_bad_request_400"), release |-> TRUE, mark |-> TRUE]

\* Mutant of OnOtherStatus: any status that is not 200 or 429 marks the pair.
OnOtherStatusMarks(tk) ==
    [task |-> JqReturn(tk, None, "jq_failed_503"), release |-> TRUE, mark |-> TRUE]

\* Lines 201-203: any other status, None returned.
OnOtherStatus(tk) ==
    [task |-> JqReturn(tk, None, "jq_failed_503"), release |-> TRUE, mark |-> FALSE]

\* Lines 204-211: asyncio.TimeoutError, sleep when attempts remain.
OnTimeout(tk) ==
    IF tk.attempt < JUPITER_RETRIES - 1
    THEN [task |-> [Slept(tk, REQUEST_TIMEOUT) EXCEPT !.pc = "jq_backoff"],
          release |-> FALSE, mark |-> FALSE]
    ELSE [task |-> JqReturn(tk, None, "jq_timeout"), release |-> TRUE, mark |-> FALSE]

\* Lines 212-216: another exception, sleep when attempts remain, then None.
OnError(tk) ==
    IF tk.attempt < JUPITER_RETRIES - 1
    THEN [task |-> [tk EXCEPT !.pc = "jq_error_sleep"], release |-> FALSE, mark |-> FALSE]
    ELSE [task |-> JqReturn(tk, None, "jq_error"), release |-> TRUE, mark |-> FALSE]

JqOutcome(tk, r) ==
    CASE r.kind = "ok" -> OnQuote(tk, r.out)
      [] r.kind = "empty" -> OnMalformed(tk, "jq_empty_response")
      [] r.kind = "badjson" -> OnMalformed(tk, "jq_json_decode_error")
      [] r.kind = "429" -> OnRateLimit(tk)
      [] r.kind = "400" -> OnBadRequest(tk)
      [] r.kind = "503" -> OnOtherStatus(tk)
      [] r.kind = "timeout" -> OnTimeout(tk)
      [] r.kind = "error" -> OnError(tk)

\* The request of task t is answered.
JqResponse(t, r) ==
    /\ task[t].pc = "jq_inflight"
    /\ r.kind = "timeout" => SleepFits(task[t], REQUEST_TIMEOUT)
    /\ LET o == JqOutcome(task[t], r) IN
       /\ invalid_tokens' = IF o.mark
                            THEN [invalid_tokens EXCEPT ![PairOf(t)] = now]
                            ELSE invalid_tokens
       /\ RATE_LIMIT' = IF o.release THEN Release(RATE_LIMIT) ELSE RATE_LIMIT
       /\ task' = [task EXCEPT ![t] = o.task]
    /\ quote_failures' = QuoteFailures(task[t], task'[t])
    /\ Frame

\* Mutant of JqBackoffDone: the loop has lost its bound and goes round again
\* after every backoff.
JqBackoffDoneUnbounded(t) ==
    /\ task[t].pc = "jq_backoff"
    /\ SleepFits(task[t], WaitTime(task[t].attempt))
    /\ RATE_LIMIT' = Acquire(Release(RATE_LIMIT))
    /\ task' = [task EXCEPT ![t] =
                   [Slept(@, WaitTime(@.attempt)) EXCEPT
                       !.pc = "jq_inflight", !.attempt = @ + 1]]
    /\ UNCHANGED invalid_tokens
    /\ quote_failures' = QuoteFailures(task[t], task'[t])
    /\ Frame

\* The backoff sleep after a 429 or a timeout is over: the permit is given
\* back; the next iteration takes one again and sends the next request, or
\* the loop is over (line 217).
JqBackoffDone(t) ==
    /\ task[t].pc = "jq_backoff"
    /\ SleepFits(task[t], WaitTime(task[t].attempt))
    /\ LET more == task[t].attempt + 1 < JUPITER_RETRIES IN
       /\ RATE_LIMIT' = IF more THEN Acquire(Release(RATE_LIMIT)) ELSE Release(RATE_LIMIT)
       /\ task' = [task EXCEPT ![t] =
                      IF more
                      THEN [Slept(@, WaitTime(@.attempt)) EXCEPT
                               !.pc = "jq_inflight", !.attempt = @ + 1]
                      ELSE JqReturn(@, None, "jq_no_quote_after_retries")]
    /\ UNCHANGED invalid_tokens
    /\ quote_failures' = QuoteFailures(task[t], task'[t])
    /\ Frame

\* Lines 214-216: the sleep after another exception is over; None is returned.
JqErrorSleepDone(t) ==
    /\ task[t].pc = "jq_error_sleep"
    /\ SleepFits(task[t], WaitTime(task[t].attempt))
    /\ RATE_LIMIT' = Release(RATE_LIMIT)
    /\ task' = [task EXCEPT ![t] = JqReturn(@, None, "jq_error")]
    /\ UNCHANGED invalid_tokens
    /\ quote_failures' = QuoteFailures(task[t], task'[t])
    /\ Frame

\* ---------------------------------------------------- get_coingecko_price
\* get_coingecko_price has returned price (or None): line 305 binds cg_price
\* and the opportunity is built next; nothing suspends from here on.
CgReturn(tk, price) ==
    [tk EXCEPT !.cg_price = price, !.price_diff_pct = PriceDiffPct(price, tk.buy_price),
               !.pc = "notify", !.attempt = 0, !.elapsed = 0]

\* Lines 221-229: the id lookup, then the first iteration of the loop takes a
\* permit and sends the request.
CgCall(t) ==
    /\ task[t].pc = "cg_call"
    /\ tokens[t] \in COINGECKO_IDS => RATE_LIMIT > 0
    /\ IF tokens[t] \notin COINGECKO_IDS
       THEN /\ task' = [task EXCEPT ![t] = CgReturn(@, None)]
            /\ RATE_LIMIT' = RATE_LIMIT
       ELSE /\ task' = [task EXCEPT ![t] = [@ EXCEPT !.pc = "cg_inflight", !.attempt = 0]]
            /\ RATE_LIMIT' = Acquire(RATE_LIMIT)
    /\ UNCHANGED <<invalid_tokens, quote_failures>>
    /\ Frame

\* Answers to session.get(COINGECKO_URL): 200 with a price, 200 without one
\* (empty, unparseable or no 'usd' entry), another status, a timeout, another
\* exception.
CoinGeckoResponses ==
    {[kind |-> "ok", price |-> p] : p \in CgPrices}
        \cup {[kind |-> k, price |-> None] : k \in {"noprice", "status", "timeout", "error"}}

\* Lines 230-262: the task after the answer r, and whether the permit is released.
CgOutcome(tk, r) ==
    LET more == tk.attempt < COINGECKO_RETRIES - 1 IN
    CASE r.kind = "ok" -> [task |-> CgReturn(tk, r.price), release |-> TRUE]
      [] r.kind = "noprice" -> [task |-> CgReturn(tk, None), release |-> TRUE]
      [] r.kind \in {"status", "error"} ->
            IF more
            THEN [task |-> [tk EXCEPT !.pc = "cg_error_sleep"], release |-> FALSE]
            ELSE [task |-> CgReturn(tk, None), release |-> TRUE]
      [] r.kind = "timeout" ->
            IF more
            THEN [task |-> [Slept(tk, REQUEST_TIMEOUT) EXCEPT !.pc = "cg_backoff"],
                  release |-> FALSE]
            ELSE [task |-> CgReturn(tk, None), release |-> TRUE]

CgResponse(t, r) ==
    /\ task[t].pc = "cg_inflight"
    /\ r.kind = "timeout" => SleepFits(task[t], REQUEST_TIMEOUT)
    /\ LET o == CgOutcome(task[t], r) IN
       /\ RATE_LIMIT' = IF o.release THEN Release(RATE_LIMIT) ELSE RATE_LIMIT
       /\ task' = [task EXCEPT ![t] = o.task]
    /\ UNCHANGED <<invalid_tokens, quote_failures>>
    /\ Frame

\* The backoff after a timeout is over: next iteration, or line 263.
CgBackoffDone(t) ==
    /\ task[t].pc = "cg_backoff"
    /\ SleepFits(task[t], WaitTime(task[t].attempt))
    /\ LET more == task[t].attempt + 1 < COINGECKO_RETRIES IN
       /\ RATE_LIMIT' = IF more THEN Acquire(Release(RATE_LIMIT)) ELSE Release(RATE_LIMIT)
       /\ task' = [task EXCEPT ![t] =
                      IF more
                      THEN [Slept(@, WaitTime(@.attempt)) EXCEPT
                               !.pc = "cg_inflight", !.attempt = @ + 1]
                      ELSE CgReturn(@, None)]
    /\ UNCHANGED <<invalid_tokens, quote_failures>>
    /\ Frame

\* The sleep after a failed status or an exception is over; None is returned.
CgErrorSleepDone(t) ==
    /\ task[t].pc = "cg_error_sleep"
    /\ SleepFits(task[t], WaitTime(task[t].attempt))
    /\ RATE_LIMIT' = Release(RATE_LIMIT)
    /\ task' = [task EXCEPT ![t] = CgReturn(@, None)]
    /\ UNCHANGED <<invalid_tokens, quote_failures>>
    /\ Frame

\* ------------------------------------------------- opportunity and notify
\* The dict of lines 309-320.
Opportunity(tk) ==
    [profit_pct |-> tk.profit_pct,
     jup_profit_pct |-> tk.jup_profit_pct,
     buy_price |-> tk.buy_price, sell_price |-> tk.sell_price,
     quote1 |-> tk.quote1, quote2 |-> tk.quote2,
     cg_price |-> tk.cg_price,
     price_diff_pct |-> tk.price_diff_pct]

\* What the Telegram send can do: status 200, another status, an exception.
TelegramOutcomes == {"telegram_sent", "telegram_failed", "telegram_error"}

\* Mutant of Notify: an exception of the Telegram send reaches detect_arb's
\* handler and the opportunity is lost.
NotifyRaises(t, tg) ==
    /\ task[t].pc = "notify"
    /\ task' = [task EXCEPT ![t] =
                   IF tg = "telegram_error"
                   THEN ReturnNone(task[t], "error_detecting_arb")
                   ELSE [NewTask EXCEPT !.pc = "done", !.result = "opp", !.log = tg,
                                        !.notified = TRUE, !.opp = Opportunity(task[t])]]
    /\ UNCHANGED <<invalid_tokens, RATE_LIMIT, quote_failures>>
    /\ Frame

\* Lines 309-323: the opportunity is built, notify_telegram is called (it
\* swallows every failure) and the opportunity is returned.
Notify(t, tg) ==
    /\ task[t].pc = "notify"
    /\ task' = [task EXCEPT ![t] =
                   [NewTask EXCEPT !.pc = "done", !.result = "opp", !.log = tg,
                                   !.notified = TRUE, !.opp = Opportunity(task[t])]]
    /\ UNCHANGED <<invalid_tokens, RATE_LIMIT, quote_failures>>
    /\ Frame

\* ----------------------------------------------------------- cancellation
\* The places inside `async with RATE_LIMIT`, and the places where an
\* evaluation is suspended.
HoldsPermit(tk) ==
    tk.pc \in {"jq_inflight", "jq_backoff", "jq_error_sleep",
               "cg_inflight", "cg_backoff", "cg_error_sleep"}

Suspended(tk) ==
    tk.pc \in {"raydium_rpc", "raydium_sleep", "orca_rpc", "orca_sleep",
               "jq_wait", "jq_inflight", "jq_backoff", "jq_error_sleep",
               "cg_wait", "cg_inflight", "cg_backoff", "cg_error_sleep"}

\* Mutant of Cancel: the cancellation does not give the permit back.
CancelLeak(t) ==
    /\ Suspended(task[t])
    /\ RATE_LIMIT' = RATE_LIMIT
    /\ task' = [task EXCEPT ![t] =
                   [NewTask EXCEPT !.pc = "done", !.result = "timeout", !.log = "timeout"]]
    /\ UNCHANGED <<invalid_tokens, quote_failures>>
    /\ Frame

\* Mutant of Cancel: the evaluation is not under wait_for and is never
\* abandoned.
CancelNever(t) ==
    /\ FALSE
    /\ Suspended(task[t])
    /\ UNCHANGED vars

\* wait_for's 25 s are over: the evaluation is cancelled where it is
\* suspended, CancelledError unwinds `async with RATE_LIMIT`, and gather
\* gets a TimeoutError for it.
Cancel(t) ==
    /\ Suspended(task[t])
    /\ RATE_LIMIT' = IF HoldsPermit(task[t]) THEN Release(RATE_LIMIT) ELSE RATE_LIMIT
    /\ task' = [task EXCEPT ![t] =
                   [NewTask EXCEPT !.pc = "done", !.result = "timeout", !.log = "timeout"]]
    /\ UNCHANGED <<invalid_tokens, quote_failures>>
    /\ Frame

\* ---------------------------------------------------------- specification
Next ==
    \/ StartScan
    \/ GatherDone
    \/ PacingDone
    \/ Tick
    \/ \E t \in Tasks : DetectArbStart(t)
    \/ \E t \in Tasks : \E r \in RpcResponses : RaydiumResponse(t, r)
    \/ \E t \in Tasks : RaydiumSleepDone(t)
    \/ \E t \in Tasks : \E r \in RpcResponses : OrcaResponse(t, r)
    \/ \E t \in Tasks : OrcaSleepDone(t)
    \/ \E t \in Tasks : JqCall(t)
    \/ \E t \in Tasks : \E r \in JupiterResponses(QuoteAmount(task[t])) : JqResponse(t, r)
    \/ \E t \in Tasks : JqBackoffDone(t)
    \/ \E t \in Tasks : JqErrorSleepDone(t)
    \/ \E t \in Tasks : CgCall(t)
    \/ \E t \in Tasks : \E r \in CoinGeckoResponses : CgResponse(t, r)
    \/ \E t \in Tasks : CgBackoffDone(t)
    \/ \E t \in Tasks : CgErrorSleepDone(t)
    \/ \E t \in Tasks : \E tg \in TelegramOutcomes : Notify(t, tg)
    \/ \E t \in Tasks : Cancel(t)

Spec == Init /\ [][Next]_vars

\* ---------------------------------------------------------------- fairness
\* The steps the event loop takes by itself: a coroutine that is ready runs,
\* a sleep that is over returns, wait_for's timer fires.  The answers of the
\* upstreams and the advance of the wall clock are left out: a request may
\* never be answered.
Advance ==
    \/ GatherDone
    \/ PacingDone
    \/ \E t \in Tasks : DetectArbStart(t)
    \/ \E t \in Tasks : RaydiumSleepDone(t)
    \/ \E t \in Tasks : OrcaSleepDone(t)
    \/ \E t \in Tasks : JqCall(t)
    \/ \E t \in Tasks : JqBackoffDone(t)
    \/ \E t \in Tasks : JqErrorSleepDone(t)
    \/ \E t \in Tasks : CgCall(t)
    \/ \E t \in Tasks : CgBackoffDone(t)
    \/ \E t \in Tasks : CgErrorSleepDone(t)
    \/ \E t \in Tasks : \E tg \in TelegramOutcomes : Notify(t, tg)
    \/ \E t \in Tasks : Cancel(t)

\* The bot as line 33 configures it: one evaluation at a time.
InitFair ==
    /\ Init
    /\ MAX_CONCURRENT_REQUESTS = 1

SpecFair == InitFair /\ [][Next]_vars /\ WF_vars(Advance)

\* ------------------------------------------------------------ direct calls
\* get_jupiter_quote called by a caller other than scan's detect_arb: any
\* pair of mints, no wait_for around the call, at most
\* MAX_CONCURRENT_REQUESTS calls at a time (so that no call waits for a
\* permit), each cancelled by its caller at any suspension or left to return.
DirectCalls == [input_mint : Addresses, output_mint : Addresses, amount : {AMOUNT}]

\* The frame of a call with arguments c at its first line: it returns to its
\* caller as the second call of detect_arb does (pc "cg_call" with the quote,
\* or "done" with None).
CallTask(c) ==
    [NewTask EXCEPT !.pc = "jq_call", !.leg = 2, !.quote1 = c.amount, !.elapsed = None]

InitCall ==
    /\ MAX_CONCURRENT_REQUESTS \in 1..MaxLimit
    /\ tokens \in {[t \in 1..n |-> USDC_ADDRESS] : n \in 1..MAX_CONCURRENT_REQUESTS}
    /\ direct \in [Tasks -> DirectCalls]
    /\ invalid_tokens = [p \in Pairs |-> None]
    /\ RATE_LIMIT = MAX_CONCURRENT_REQUESTS
    /\ now = 0
    /\ quote_failures = NoFailures
    /\ scan = [pc |-> "direct", i |-> 1, valid_results |-> 0]
    /\ task = [t \in Tasks |-> CallTask(direct[t])]

\* The caller makes its call once more.
CallAgain(t) ==
    /\ scan.pc = "direct"
    /\ task[t].pc \in {"done", "cg_call"}
    /\ task' = [task EXCEPT ![t] = CallTask(direct[t])]
    /\ UNCHANGED <<invalid_tokens, RATE_LIMIT, quote_failures>>
    /\ Frame

NextCall ==
    \/ Tick
    \/ \E t \in Tasks : JqCall(t)
    \/ \E t \in Tasks : \E r \in JupiterResponses(QuoteAmount(task[t])) : JqResponse(t, r)
    \/ \E t \in Tasks : JqBackoffDone(t)
    \/ \E t \in Tasks : JqErrorSleepDone(t)
    \/ \E t \in Tasks : Cancel(t)
    \/ \E t \in Tasks : CallAgain(t)

SpecCall == InitCall /\ [][NextCall]_vars

\* ------------------------------------------------- more callers than permits
\* detect_arb called by callers other than scan: every entry of the token
\* universe is evaluated at once, with no batching and no wait_for around the
\* evaluations, so that there are more evaluations than permits and an
\* `async with RATE_LIMIT` can find no permit free (lines 176 and 226).
\*
\* RATE_LIMIT counts the permits that no attempt holds.  Semaphore.acquire
\* suspends when it finds the semaphore locked: no permit free, or (Python
\* 3.11 on) a waiter in the queue; Semaphore.release frees a permit and wakes
\* a waiter, which takes it when it runs (up to Python 3.10) or has it handed
\* over (3.11 on).  The actions below allow both disciplines.
Waiters == {u \in Tasks : task[u].pc \in {"jq_wait", "cg_wait"}}

Locked(t) == RATE_LIMIT = 0 \/ Waiters \ {t} # {}

\* Lines 162-176: the call is not refused and line 176 finds the semaphore
\* locked; the call waits in acquire.
JqCallWait(t) ==
    /\ task[t].pc = "jq_call"
    /\ JqRefusal(t) = ""
    /\ Locked(t)
    /\ task' = [task EXCEPT ![t] = [@ EXCEPT !.pc = "jq_wait", !.attempt = 0]]
    /\ UNCHANGED <<invalid_tokens, RATE_LIMIT, quote_failures>>
    /\ Frame

\* Lines 176-178: the waiting call gets a permit and sends its request.
JqAcquire(t) ==
    /\ task[t].pc = "jq_wait"
    /\ RATE_LIMIT > 0
    /\ RATE_LIMIT' = Acquire(RATE_LIMIT)
    /\ task' = [task EXCEPT ![t] = [@ EXCEPT !.pc = "jq_inflight"]]
    /\ UNCHANGED <<invalid_tokens, quote_failures>>
    /\ Frame

\* The backoff sleep is over with attempts left and another call waiting:
\* the permit is given back at the end of `async with` and the next
\* iteration queues up behind the waiter.
JqBackoffDoneQueued(t) ==
    /\ task[t].pc = "jq_backoff"
    /\ task[t].attempt + 1 < JUPITER_RETRIES
    /\ Waiters \ {t} # {}
    /\ RATE_LIMIT' = Release(RATE_LIMIT)
    /\ task' = [task EXCEPT ![t] = [@ EXCEPT !.pc = "jq_wait", !.attempt = @ + 1]]
    /\ UNCHANGED <<invalid_tokens, quote_failures>>
    /\ Frame

\* Lines 221-226: the id is known and line 226 finds the semaphore locked.
CgCallWait(t) ==
    /\ task[t].pc = "cg_call"
    /\ tokens[t] \in COINGECKO_IDS
    /\ Locked(t)
    /\ task' = [task EXCEPT ![t] = [@ EXCEPT !.pc = "cg_wait", !.attempt = 0]]
    /\ UNCHANGED <<invalid_tokens, RATE_LIMIT, quote_failures>>
    /\ Frame

\* Lines 226-229: the waiting call gets a permit and sends its request.
CgAcquire(t) ==
    /\ task[t].pc = "cg_wait"
    /\ RATE_LIMIT > 0
    /\ RATE_LIMIT' = Acquire(RATE_LIMIT)
    /\ task' = [task EXCEPT ![t] = [@ EXCEPT !.pc = "cg_inflight"]]
    /\ UNCHANGED <<invalid_tokens, quote_failures>>
    /\ Frame

\* The same as JqBackoffDoneQueued, for get_coingecko_price.
CgBackoffDoneQueued(t) ==
    /\ task[t].pc = "cg_backoff"
    /\ task[t].attempt + 1 < COINGECKO_RETRIES
    /\ Waiters \ {t} # {}
    /\ RATE_LIMIT' = Release(RATE_LIMIT)
    /\ task' = [task EXCEPT ![t] = [@ EXCEPT !.pc = "cg_wait", !.attempt = @ + 1]]
    /\ UNCHANGED <<invalid_tokens, quote_failures>>
    /\ Frame

\* One permit, every evaluation called and none run yet.
InitEval ==
    /\ MAX_CONCURRENT_REQUESTS = 1
    /\ tokens \in [1..MaxTokens -> Addresses]
    /\ direct = [t \in Tasks |-> NoCall]
    /\ invalid_tokens = [p \in Pairs |-> None]
    /\ RATE_LIMIT = MAX_CONCURRENT_REQUESTS
    /\ now = 0
    /\ quote_failures = NoFailures
    /\ scan = [pc |-> "direct", i |-> 1, valid_results |-> 0]
    /\ task = [t \in Tasks |-> [NewTask EXCEPT !.pc = "start", !.elapsed = None]]

NextEval ==
    \/ Tick
    \/ \E t \in Tasks : DetectArbStart(t)
    \/ \E t \in Tasks : \E r \in RpcResponses : RaydiumResponse(t, r)
    \/ \E t \in Tasks : RaydiumSleepDone(t)
    \/ \E t \in Tasks : \E r \in RpcResponses : OrcaResponse(t, r)
    \/ \E t \in Tasks : OrcaSleepDone(t)
    \/ \E t \in Tasks : JqCall(t)
    \/ \E t \in Tasks : JqCallWait(t)
    \/ \E t \in Tasks : JqAcquire(t)
    \/ \E t \in Tasks : \E r \in JupiterResponses(QuoteAmount(task[t])) : JqResponse(t, r)
    \/ \E t \in Tasks : JqBackoffDone(t)
    \/ \E t \in Tasks : JqBackoffDoneQueued(t)
    \/ \E t \in Tasks : JqErrorSleepDone(t)
    \/ \E t \in Tasks : CgCall(t)
    \/ \E t \in Tasks : CgCallWait(t)
    \/ \E t \in Tasks : CgAcquire(t)
    \/ \E t \in Tasks : \E r \in CoinGeckoResponses : CgResponse(t, r)
    \/ \E t \in Tasks : CgBackoffDone(t)
    \/ \E t \in Tasks : CgBackoffDoneQueued(t)
    \/ \E t \in Tasks : CgErrorSleepDone(t)
    \/ \E t \in Tasks : \E tg \in TelegramOutcomes : Notify(t, tg)
    \/ \E t \in Tasks : Cancel(t)

SpecEval == InitEval /\ [][NextEval]_vars

\* ------------------------------------------------------------------ claims
\* The evaluations with an upstream request in flight: a pool account fetch,
\* a Jupiter quote request or a CoinGecko price request.
InFlight ==
    {t \in Tasks : task[t].pc \in {"raydium_rpc", "orca_rpc", "jq_inflight", "cg_inflight"}}

\* The evaluations inside `async with RATE_LIMIT`.
PermitHolders == {t \in Tasks : HoldsPermit(task[t])}

\* C1: in every reachable state of a pass, whatever the number of tokens, the
\* number of upstream requests in flight is at most MAX_CONCURRENT_REQUESTS.
C1_InFlightBounded == Cardinality(InFlight) <= MAX_CONCURRENT_REQUESTS

\* Two evaluations of one batch have a request in flight at once (a pool
\* fetch and a Jupiter quote), with a limit of 2.
C1_Witness ==
    /\ MAX_CONCURRENT_REQUESTS = 2
    /\ \E t, u \in Tasks : task[t].pc = "orca_rpc" /\ task[u].pc = "jq_inflight"

\* C2: every permit taken is given back on every way out of an attempt: the
\* free permits always are MAX_CONCURRENT_REQUESTS less the attempts under
\* way, so with no attempt under way, and at the end of a pass, all are free.
C2_PermitsReleased ==
    /\ RATE_LIMIT = MAX_CONCURRENT_REQUESTS - Cardinality(PermitHolders)
    /\ PermitHolders = {} => RATE_LIMIT = MAX_CONCURRENT_REQUESTS
    /\ scan.pc = "sleeping" => RATE_LIMIT = MAX_CONCURRENT_REQUESTS

\* A pass has ended in which one evaluation ran into the timeout, another
\* left its attempt through the 400 branch, and all permits are free.
C2_Witness ==
    /\ scan.pc = "sleeping"
    /\ RATE_LIMIT = MAX_CONCURRENT_REQUESTS
    /\ \E t, u \in Tasks :
          task[t].result = "timeout" /\ task[u].log = "jq_bad_request_400"

\* C3: when the quote call of a leg ends without a quote, the evaluation is
\* over with no opportunity: no call for a later leg, no notification, and
\* nothing changes that later in the pass; every opportunity returned or
\* notified carries a quote for both legs.
C3_FailedLegAborts ==
    [][\A t \in Tasks :
          LET a == task[t]
              b == task'[t]
          IN  /\ ( /\ a.pc \in JqPcs
                   /\ b.pc \notin JqPcs \/ b.leg # a.leg
                   /\ (IF a.leg = 1 THEN b.quote1 ELSE b.quote2) = None )
                    => (b.pc = "done" /\ b.result # "opp" /\ ~b.notified /\ b.opp = NoOpp)
              /\ (a.pc = "done" /\ b.pc = "done") => b = a
              /\ (b.result = "opp" \/ b.notified)
                    => (b.opp.quote1 # None /\ b.opp.quote2 # None)]_vars

\* A pass has ended in which one evaluation lost a leg to an unparseable
\* answer and was not notified, while another produced an opportunity.
C3_Witness ==
    /\ scan.pc = "sleeping"
    /\ \E t, u \in Tasks :
          /\ task[t].log = "jq_json_decode_error" /\ ~task[t].notified
          /\ task[u].result = "opp" /\ task[u].notified

\* C4: a call for a pair whose negative-cache entry is younger than TTL
\* returns a failure at once: no request goes out and no permit is taken.
C4_SuppressedNoRequest ==
    [][\A t \in Tasks :
          LET a == task[t]
              b == task'[t]
              pair == PairOf(t)
          IN  ( /\ a.pc = "jq_call" /\ b # a
                /\ pair[1] # pair[2]
                /\ invalid_tokens[pair] # None
                /\ now - invalid_tokens[pair] < INVALID_TOKEN_TTL )
                 => /\ b.pc = "done" /\ b.result = "none"
                    /\ b.log = "jq_recently_invalid"
                    /\ RATE_LIMIT' = RATE_LIMIT
                    /\ invalid_tokens' = invalid_tokens]_vars

\* A call was refused for a recently invalid pair, with every permit free,
\* while the only entry is 300 seconds old.
C4_Witness ==
    /\ RATE_LIMIT = MAX_CONCURRENT_REQUESTS
    /\ \E t \in Tasks : task[t].log = "jq_recently_invalid"
    /\ \E p \in Pairs : invalid_tokens[p] # None
    /\ \A p \in Pairs : invalid_tokens[p] # None => now - invalid_tokens[p] = 300

\* C5: an entry written at t0 suppresses the calls for its pair at every time
\* t with t - t0 < TTL and at none with t - t0 >= TTL: from then on a call
\* sends its request as a call for a pair without an entry does.
C5_TtlBoundary ==
    [][\A t \in Tasks :
          LET a == task[t]
              b == task'[t]
              pair == PairOf(t)
              t0 == invalid_tokens[pair]
          IN  (a.pc = "jq_call" /\ b # a /\ pair[1] # pair[2])
                 => IF t0 # None /\ now - t0 < INVALID_TOKEN_TTL
                    THEN b.pc = "done" /\ b.log = "jq_recently_invalid"
                    ELSE /\ b = [a EXCEPT !.pc = "jq_inflight", !.attempt = 0]
                         /\ RATE_LIMIT' = RATE_LIMIT - 1
                         /\ invalid_tokens' = invalid_tokens]_vars

\* A request is in flight for a pair whose entry has reached the age TTL.
C5_Witness ==
    \E t \in Tasks :
        /\ task[t].pc = "jq_inflight" /\ task[t].attempt = 0
        /\ invalid_tokens[PairOf(t)] # None
        /\ now - invalid_tokens[PairOf(t)] >= INVALID_TOKEN_TTL

\* C6: a 400 answer records the pair in the negative cache with the current
\* time and ends the call with a failure at once, whatever attempts remain:
\* the permit is given back and no further request follows.
C6_BadRequestMarksAndReturns ==
    [][\A t \in Tasks :
          JqResponse(t, [kind |-> "400", out |-> None])
             => /\ invalid_tokens'[PairOf(t)] = now
                /\ task'[t].pc = "done" /\ task'[t].result = "none"
                /\ task'[t].log = "jq_bad_request_400"
                /\ RATE_LIMIT' = RATE_LIMIT + 1]_vars

\* A call has ended on a 400, and an entry carries the current time, which
\* is not the time of the start.
C6_Witness ==
    /\ now > 0
    /\ \E t \in Tasks : task[t].log = "jq_bad_request_400"
    /\ \E p \in Pairs : invalid_tokens[p] = now

\* C7: a timeout, a 5xx or a 429 on an attempt that is not the last one is
\* followed by a backoff and another attempt, never by a failure.
C7_TransientRetried ==
    [][\A t \in Tasks : \A k \in {"timeout", "503", "429"} :
          (JqResponse(t, [kind |-> k, out |-> None]) /\ task[t].attempt < JUPITER_RETRIES - 1)
             => task'[t].pc = "jq_backoff"]_vars

\* C8: once BreakerThreshold quote calls in a row have failed, a new call
\* made within BreakerCooldown of the last failure returns a failure without
\* a request; a call made after it sends its request again (unless the pair
\* itself is refused).
C8_BreakerOpens ==
    [][\A t \in Tasks :
          (/\ task[t].pc = "jq_call" /\ task'[t] # task[t]
           /\ quote_failures.count >= BreakerThreshold)
             => IF now - quote_failures.at < BreakerCooldown
                THEN task'[t].pc = "done" /\ RATE_LIMIT' = RATE_LIMIT
                ELSE JqRefusal(t) = "" => task'[t].pc = "jq_inflight"]_vars

\* (final - initial) / initial * 100 as a fraction in lowest terms.
ChainProfitPct(initial, final) == RatMul(Rat(final - initial, initial), RatInt(100))

C10_ChainProfitAboveThreshold ==
    \A t \in Tasks :
        (task[t].result = "opp" \/ task[t].notified)
           => RatGE(ChainProfitPct(AMOUNT, task[t].opp.quote2), RatInt(MIN_PROFIT_PCT))

\* C11: an evaluation that ends without an opportunity (None, an exception
\* caught in detect_arb, or the timeout) changes neither the scan nor any
\* other evaluation, and when the pass ends every token's evaluation has
\* been started and has ended.
C11_FailureIsolated ==
    [][/\ \A t \in Tasks :
            (task[t].pc # "done" /\ task'[t].pc = "done" /\ task'[t].result # "opp")
               => /\ scan' = scan
                  /\ \A u \in Tasks \ {t} : task'[u] = task[u]
       /\ scan'.pc = "sleeping" => \A t \in Tasks : task'[t].pc = "done"]_vars

\* With one evaluation at a time, the first was abandoned by the timeout,
\* the second ended on an exception in detect_arb, and the pass has ended.
C11_Witness ==
    /\ scan.pc = "sleeping" /\ MAX_CONCURRENT_REQUESTS = 1 /\ N = 2
    /\ task[1].result = "timeout"
    /\ task[2].pc = "done" /\ task[2].log = "error_detecting_arb"

\* C12: a quote call whose input mint is its output mint returns a failure
\* at once: no request, no permit taken, the negative cache unchanged.
C12_SelfPairRefused ==
    [][\A t \in Tasks :
          ( /\ task[t].pc = "jq_call" /\ task'[t] # task[t]
            /\ direct[t].input_mint = direct[t].output_mint )
             => /\ task'[t].pc = "done" /\ task'[t].result = "none"
                /\ task'[t].log = "jq_self_pair"
                /\ RATE_LIMIT' = RATE_LIMIT
                /\ invalid_tokens' = invalid_tokens]_vars

\* A call for a self-pair has been refused; every permit is free and the
\* negative cache is empty.
C12_Witness ==
    /\ RATE_LIMIT = MAX_CONCURRENT_REQUESTS
    /\ \A p \in Pairs : invalid_tokens[p] = None
    /\ \E t \in Tasks :
          /\ direct[t].input_mint = direct[t].output_mint
          /\ task[t].log = "jq_self_pair"

\* C13: for X # Y, a step that writes the entry of (X, Y) leaves the entry of
\* (Y, X) as it is, and a call for (Y, X) whose own entry is absent or as old
\* as TTL sends its request while the entry of (X, Y) suppresses.
C13_Directional ==
    [][/\ \A x, y \in Addresses :
            (x # y /\ invalid_tokens'[<<x, y>>] # invalid_tokens[<<x, y>>])
               => invalid_tokens'[<<y, x>>] = invalid_tokens[<<y, x>>]
       /\ \A t \in Tasks :
            LET x == direct[t].output_mint
                y == direct[t].input_mint
                own == invalid_tokens[<<y, x>>]
                other == invalid_tokens[<<x, y>>]
            IN  ( /\ task[t].pc = "jq_call" /\ task'[t] # task[t]
                  /\ x # y
                  /\ own = None \/ now - own >= INVALID_TOKEN_TTL
                  /\ other # None /\ now - other < INVALID_TOKEN_TTL )
                   => task'[t].pc = "jq_inflight"]_vars

\* The request for (WIF, USDC) is in flight while (USDC, WIF) is suppressed
\* and (WIF, USDC) has no entry.
C13_Witness ==
    \E t \in Tasks :
        /\ direct[t] = [input_mint |-> "WIF", output_mint |-> USDC_ADDRESS, amount |-> AMOUNT]
        /\ task[t].pc = "jq_inflight"
        /\ invalid_tokens[<<"WIF", USDC_ADDRESS>>] = None
        /\ invalid_tokens[<<USDC_ADDRESS, "WIF">>] # None
        /\ now - invalid_tokens[<<USDC_ADDRESS, "WIF">>] < INVALID_TOKEN_TTL

\* C14: a 200 answer with an empty or unparseable body on an attempt that is
\* not the last one is followed by another attempt, not by a failure.
C14_MalformedRetried ==
    [][\A t \in Tasks : \A k \in {"empty", "badjson"} :
          (JqResponse(t, [kind |-> k, out |-> None]) /\ task[t].attempt < JUPITER_RETRIES - 1)
             => task'[t].pc \in {"jq_backoff", "jq_inflight"}]_vars

\* C15: a quote with an output amount of zero ends the evaluation: no
\* request of the second leg is in flight for an amount of zero, and no
\* opportunity carries a zero quote.
C15_ZeroQuoteIsFailure ==
    \A t \in Tasks :
        /\ (task[t].pc = "jq_inflight" /\ task[t].leg = 2) => task[t].quote1 # 0
        /\ task[t].result = "opp" => (task[t].opp.quote1 # 0 /\ task[t].opp.quote2 # 0)

\* The evaluations that have been started and have not ended.
Running == {t \in Tasks : task[t].pc \notin {"new", "done"}}

\* C16: the evaluations that run are at most MAX_CONCURRENT_REQUESTS and
\* belong to the batch being gathered, every evaluation of an earlier batch
\* has ended and none of a later batch has started; an evaluation starts
\* only when none is running and, unless it is of the first batch, at the end
\* of the pacing sleep.
C16_BatchesInOrder ==
    [][/\ Cardinality(Running') <= MAX_CONCURRENT_REQUESTS
       /\ Running' # {} => scan'.pc = "gather"
       /\ \A t \in Tasks :
            /\ t \in Running' => (scan'.i <= t /\ t < scan'.i + MAX_CONCURRENT_REQUESTS)
            /\ (scan'.pc \in {"gather", "pacing"} /\ t < scan'.i) => task'[t].pc = "done"
            /\ (scan'.pc \in {"gather", "pacing"} /\ t >= scan'.i + MAX_CONCURRENT_REQUESTS)
                  => task'[t].pc = "new"
            /\ (t \notin Running /\ t \in Running')
                  => /\ Running = {}
                     /\ t > MAX_CONCURRENT_REQUESTS => scan.pc = "pacing"
                     /\ t <= MAX_CONCURRENT_REQUESTS => scan.pc \in {"idle", "sleeping"}]_vars

\* The second batch of one is running after the first has ended.
C16_Witness ==
    /\ MAX_CONCURRENT_REQUESTS = 1 /\ N = 2
    /\ scan.pc = "gather" /\ scan.i = 2
    /\ task[1].pc = "done" /\ task[2].pc = "jq_inflight"

\* C17: a pass that has started its evaluations ends, and every evaluation
\* that has been started ends (with a result or abandoned), whatever the
\* upstreams do.
C17_PassTerminates ==
    /\ (scan.pc = "gather") ~> (scan.pc = "sleeping")
    /\ \A t \in 1..MaxTokens :
          (t <= N /\ task[t].pc = "start") ~> (t <= N /\ task[t].pc = "done")

\* A pass of two evaluations has ended with one of them abandoned and the
\* other one counted.
C17_Witness ==
    /\ scan.pc = "sleeping" /\ N = 2 /\ scan.valid_results = 1
    /\ \A t \in Tasks : task[t].pc = "done"
    /\ \E t \in Tasks : task[t].result = "timeout"

\* C18: a Telegram send that raises or answers with a status other than 200
\* does not reach the engine: the evaluation still ends with its opportunity,
\* the scan and the other evaluations are left as they are, and the batch's
\* count takes in every evaluation that got as far as the send.
C18_DeliveryFailureContained ==
    [][/\ \A t \in Tasks :
            (task[t].pc = "notify" /\ task'[t] # task[t])
               => /\ task'[t].pc = "done"
                  /\ task'[t].result = "opp"
                  /\ task'[t].opp = Opportunity(task[t])
                  /\ scan' = scan
                  /\ \A u \in Tasks \ {t} : task'[u] = task[u]
       /\ (scan.pc = "gather" /\ scan'.pc = "pacing")
            => scan'.valid_results = scan.valid_results
                  + Cardinality({t \in Batch(scan.i) : task[t].log \in TelegramOutcomes})]_vars

\* A pass of two evaluations has ended: the send of the first raised, the
\* send of the second was answered with an error status, both are counted.
C18_Witness ==
    /\ scan.pc = "sleeping" /\ N = 2 /\ scan.valid_results = 2
    /\ task[1].log = "telegram_error" /\ task[1].result = "opp"
    /\ task[2].log = "telegram_failed" /\ task[2].result = "opp"

C20_CacheWrittenOnlyOn400 ==
    [][invalid_tokens' # invalid_tokens
          => \E t \in Tasks :
                /\ JqResponse(t, [kind |-> "400", out |-> None])
                /\ invalid_tokens'[PairOf(t)] = now
                /\ \A p \in Pairs \ {PairOf(t)} : invalid_tokens'[p] = invalid_tokens[p]]_vars

\* One call was rejected with 400 and its pair is marked; the call for the
\* opposite pair ran out of retries and its pair is not marked.
C20_Witness ==
    /\ N = 2
    /\ PairOf(1) = <<USDC_ADDRESS, "WIF">> /\ PairOf(2) = <<"WIF", USDC_ADDRESS>>
    /\ task[1].log = "jq_bad_request_400" /\ invalid_tokens[PairOf(1)] # None
    /\ task[2].log = "jq_no_quote_after_retries" /\ invalid_tokens[PairOf(2)] = None

\* C21: one get_jupiter_quote call sends at most JUPITER_RETRIES requests,
\* whatever the answers: the request sent from the first line of the call is
\* number 1 (attempt 0), every later one follows a backoff and is one more
\* than the one before, and none is number JUPITER_RETRIES + 1; the call
\* whose last request was not answered with a quote returns None.
C21_AtMostRetriesRequests ==
    [][\A t \in Tasks :
          /\ (/\ task'[t].pc = "jq_inflight"
              /\ (task[t].pc # "jq_inflight" \/ task'[t].attempt # task[t].attempt))
                => /\ task[t].pc \in {"jq_call", "jq_backoff"}
                   /\ task'[t].attempt =
                         (IF task[t].pc = "jq_call" THEN 0 ELSE task[t].attempt + 1)
                   /\ task'[t].attempt + 1 <= JUPITER_RETRIES
          /\ (/\ task[t].pc = "jq_backoff"
              /\ task[t].attempt = JUPITER_RETRIES - 1
              /\ task'[t] # task[t])
                => (task'[t].pc = "done" /\ task'[t].result \in {"none", "timeout"})
          /\ (/\ task[t].pc = "jq_inflight"
              /\ task[t].attempt = JUPITER_RETRIES - 1
              /\ task'[t] # task[t]
              /\ task'[t].quote2 = None)
                => \/ task'[t].pc = "jq_backoff"
                   \/ (task'[t].pc = "done" /\ task'[t].result \in {"none", "timeout"})]_vars

\* The fifth request of a call has been answered with 429: the call is in
\* its last backoff.
C21_Witness ==
    \E t \in Tasks :
        /\ direct[t] # NoCall
        /\ task[t].pc = "jq_backoff"
        /\ task[t].attempt = JUPITER_RETRIES - 1

\* C22: within one evaluation the legs are quoted in order.  The call for
\* leg 1 is made once the pool prices are in, the call for leg 2 only in the
\* step in which leg 1's request is answered with a quote, whose outAmount it
\* keeps; every request of leg 1 asks for the notional amount and every
\* request of leg 2 for the outAmount of leg 1's quote.
C22_LegsInOrder ==
    [][\A t \in Tasks :
          /\ (task[t].leg # 1 /\ task'[t].leg = 1)
                => (task[t].pc \in {"orca_rpc", "orca_sleep"} /\ task'[t].pc = "jq_call")
          /\ (task[t].leg # 2 /\ task'[t].leg = 2)
                => /\ task[t].pc = "jq_inflight" /\ task[t].leg = 1
                   /\ task'[t].pc = "jq_call"
                   /\ \E v \in OutAmounts(AMOUNT) :
                         /\ JqResponse(t, [kind |-> "ok", out |-> v])
                         /\ task'[t].quote1 = v
          /\ (/\ task'[t].pc = "jq_inflight"
              /\ (task[t].pc # "jq_inflight" \/ task'[t].attempt # task[t].attempt))
                => /\ task'[t].leg \in {1, 2}
                   /\ task'[t].leg = task[t].leg
                   /\ task'[t].leg = 1 => QuoteAmount(task'[t]) = AMOUNT
                   /\ task'[t].leg = 2 => /\ task'[t].quote1 = task[t].quote1
                                          /\ QuoteAmount(task'[t]) = task[t].quote1]_vars

\* The request of leg 2 is in flight for the 105000000 that leg 1's quote
\* gave.
C22_Witness ==
    \E t \in Tasks :
        /\ direct[t] = NoCall
        /\ task[t].pc = "jq_inflight" /\ task[t].leg = 2
        /\ task[t].quote1 = 105000000

\* The evaluations of the pass for which notify_telegram has been called.
Notified == {t \in Tasks : task[t].notified}

\* C23: in a pass every entry of the token universe is evaluated once (an
\* evaluation is started only when it has not run in this pass, one that has
\* ended stays so until the next pass, and the pass ends with all of them
\* ended); notify_telegram is called once for an evaluation, in the step that
\* ends it with an opportunity, and for no other; and the count at the end of
\* the pass is the number of evaluations notified.
C23_OncePerPass ==
    [][/\ \A t \in Tasks :
            /\ (task[t].pc # "start" /\ task'[t].pc = "start")
                  => (task[t].pc = "new" \/ scan.pc \in {"idle", "sleeping"})
            /\ (task[t].pc = "done" /\ task'[t] # task[t])
                  => (scan.pc = "sleeping" /\ scan'.pc = "gather" /\ scan'.i = 1)
            /\ (~task[t].notified /\ task'[t].notified)
                  => (task[t].pc = "notify" /\ task'[t].pc = "done")
            /\ task'[t].notified <=> (task'[t].pc = "done" /\ task'[t].result = "opp")
            /\ task'[t].notified <=> task'[t].opp # NoOpp
       /\ scan'.pc = "sleeping"
            => /\ \A t \in Tasks : task'[t].pc = "done"
               /\ scan'.valid_results = Cardinality({t \in Tasks : task'[t].notified})
       /\ scan'.pc = "pacing"
            => scan'.valid_results =
                  Cardinality({t \in Tasks : t < scan'.i + MAX_CONCURRENT_REQUESTS
                                              /\ task'[t].notified})]_vars

\* A pass over two entries has ended: the first evaluation was notified and
\* is the one counted, the second returned None.
C23_Witness ==
    /\ scan.pc = "sleeping" /\ N = 2
    /\ Notified = {1} /\ task[2].result = "none"
    /\ scan.valid_results = 1

\* C24: a pool fetch that raised on an attempt that is not the last is
\* followed, once the backoff sleep is over, by another fetch attempt of the
\* same function, not by its return.
C24_RpcFetchRetried ==
    [][\A t \in Tasks :
          /\ (/\ task[t].pc = "raydium_sleep"
              /\ task[t].attempt < RPC_RETRIES - 1
              /\ task'[t] # task[t]
              /\ task'[t].result # "timeout")
                => (task'[t].pc = "raydium_rpc" /\ task'[t].attempt = task[t].attempt + 1)
          /\ (/\ task[t].pc = "orca_sleep"
              /\ task[t].attempt < RPC_RETRIES - 1
              /\ task'[t] # task[t]
              /\ task'[t].result # "timeout")
                => (task'[t].pc = "orca_rpc" /\ task'[t].attempt = task[t].attempt + 1)]_vars

\* C25: a call sleeps its backoff with its permit: the permits of the calls
\* that are backing off are not free, the quote calls in flight or backing
\* off are never more than MAX_CONCURRENT_REQUESTS, and with a limit of 1 no
\* other evaluation sends a quote or CoinGecko request while a call is
\* backing off.
C25_BackoffHoldsPermit ==
    [][/\ RATE_LIMIT' >= 0
       /\ RATE_LIMIT' <= MAX_CONCURRENT_REQUESTS'
                           - Cardinality({t \in Tasks : task'[t].pc = "jq_backoff"})
       /\ Cardinality({t \in Tasks : task'[t].pc \in {"jq_inflight", "jq_backoff"}})
             <= MAX_CONCURRENT_REQUESTS'
       /\ MAX_CONCURRENT_REQUESTS = 1
             => \A t \in Tasks :
                   (/\ task'[t].pc \in {"jq_inflight", "cg_inflight"}
                    /\ task[t].pc # task'[t].pc)
                      => ~ \E u \in Tasks \ {t} : task[u].pc = "jq_backoff"]_vars

\* With one permit, one call is backing off and the other evaluation's quote
\* call waits for the permit.
C25_Witness ==
    /\ MAX_CONCURRENT_REQUESTS = 1 /\ RATE_LIMIT = 0
    /\ \E t, u \in Tasks :
          /\ task[t].pc = "jq_backoff" /\ task[t].attempt = 1
          /\ task[u].pc = "jq_wait"

====
